---- MODULE Spec2Model ----
(***************************************************************************)
(* Ride-Booking-server: the ride store (utils/db.js), the ride controller  *)
(* (controllers/ride.controller.js), the status utilities                  *)
(* (utils/rideStatus.utils.js), the periodic scheduler of the server entry *)
(* file (unnamed/part_002) and the Socket.IO joinRide handler of the app   *)
(* file (unnamed/part_003).                                                *)
(*                                                                         *)
(* Time.  Date.now() has millisecond resolution.  The program uses it in   *)
(* two ways: as a ride id (only equality and order of ids matter) and to   *)
(* measure the time elapsed since a ride's lastUpdated.  The model keeps   *)
(*   now     the ordinal of the current millisecond among the milliseconds *)
(*           in which a ride id was taken (two createRide calls with no    *)
(*           Advance between them run in the same millisecond);            *)
(*   age     per ride, Date.now() - lastUpdated in ms, saturating at       *)
(*           AgeCap, the largest threshold any comparison uses.            *)
(* Writing lastUpdated = new Date() is age = 0; Advance lets StepMs pass.  *)
(*                                                                         *)
(* Drivers.  db.drivers is seeded with five active drivers and no handler   *)
(* changes a driver.  The driver table is data of the store: the model     *)
(* also starts from a table with no active driver, the case the            *)
(* activeDrivers.length === 0 branch of findNearestDriver is written for.  *)
(*                                                                         *)
(* Relay.  unnamed/part_000 is the store of the clustered variant: the    *)
(* master owns db.rides and handles "db_operation" messages, a worker has  *)
(* a client that sends such a message per call and settles the call's      *)
(* promise when a response with its message id arrives.  The model takes   *)
(* the delivery the comments of the file describe: what a worker passes to *)
(* process.send reaches the master's listener, what the master passes to   *)
(* process.send reaches a worker's listener.  The master's process.send    *)
(* names no worker, so which worker receives a response is not decided by  *)
(* the file: the model lets any worker receive it.                         *)
(*                                                                         *)
(* Atomicity.  Node runs one callback at a time.  Every await of the       *)
(* modelled handlers that follows their first store access awaits a plain  *)
(* value of the in-process store, so its continuation is a microtask of    *)
(* the same turn and no other handler runs in between: each handler is     *)
(* one action.                                                             *)
(***************************************************************************)
EXTENDS Integers, Sequences, FiniteSets, TLC

\* ---------------------------------------------------------------- bounds
Users == {1, 2}
Sockets == {"s1", "s2"}
Workers == {"w1", "w2"}
MaxRides == 2
SockMaxRides == 1
MaxNow == 2
MaxInbox == 3
MaxMessageId == 2
MaxDrivers == 3
StepMs == 30000

\* ------------------------------------------------------------- constants
AgeCap == 120000
UnknownRideId == 9999
SeedDrivers == 5
NaN == -1
Null == "null"

STATUSES ==
  [ DRIVER_ON_WAY  |-> "Driver on the way",
    DRIVER_ARRIVED |-> "Driver arrived",
    RIDE_STARTED   |-> "Ride started",
    RIDE_COMPLETED |-> "Ride completed",
    COMPLETED      |-> "completed",
    CANCELLED      |-> "cancelled",
    PENDING        |-> "pending",
    IN_PROGRESS    |-> "in_progress",
    EN_ROUTE       |-> "en route" ]

\* the values the Joi schema of PUT /:id/status lets through to the handler
updateRideStatusSchema ==
  {"Driver arrived", "Ride started", "Ride completed", "completed", "cancelled"}

PickupETA == "2 minutes"
RideETA == "5 minutes"

VARIABLES
  now,        \* ordinal of the current Date.now() value (see above)
  idTaken,    \* TRUE iff a ride id was taken in the current millisecond
  isTestEnv,  \* process.env.NODE_ENV === "test"
  activeDrivers, \* the number of db.drivers whose active flag is set
  sigterm,    \* the SIGTERM handler has run
  rides,      \* db.rides, in array order
  rooms,      \* per socket, the rooms of the scheduler's io it has joined
  inbox,      \* per socket, the events it has received, oldest first
  res,        \* the last HTTP response
  statusUpdateIntervals, \* the intervals the variant joinRide has started
  messageId,       \* per worker, the message ID counter of its relay client
  pendingMessages, \* per worker, the calls awaiting a response, by message id
  toMaster,        \* per worker, its messages to the master not yet handled
  toWorker,        \* the responses the master has sent, not yet received
  masterDb,        \* db.rides of the master process
  settled,         \* per worker, the promises settled so far, oldest first
  inProcessDb,     \* db.rides of an in-process store given the same operations
  inProcessOutcome, \* what the in-process store returned for each of them
  dbDrivers,       \* db.drivers, each with its distance to one request's pickup
  distance,        \* that request's distance from pickup to destination
  nearestDriver,   \* what findNearestDriver returned for it
  returned,        \* the ride createRide answered it with
  stored           \* the ride db.addRide pushed for it

appVars == <<now, idTaken, isTestEnv, activeDrivers, sigterm, rides, rooms, inbox,
             res, statusUpdateIntervals>>

relayVars == <<messageId, pendingMessages, toMaster, toWorker, masterDb, settled,
               inProcessDb, inProcessOutcome>>

bookingVars == <<dbDrivers, distance, nearestDriver, returned, stored>>

vars == <<appVars, relayVars, bookingVars>>

\* ------------------------------------------------- rideStatus.utils.js
isActiveRide(ride) ==
  ride.status # STATUSES.COMPLETED /\ ride.status # STATUSES.CANCELLED

\* a faulty table, for comparison: a started ride goes on as in_progress
getNextAutomaticStatusLegacy(currentStatus) ==
  CASE currentStatus = STATUSES.DRIVER_ON_WAY  -> STATUSES.DRIVER_ARRIVED
    [] currentStatus = STATUSES.DRIVER_ARRIVED -> STATUSES.RIDE_STARTED
    [] currentStatus = STATUSES.RIDE_STARTED   -> STATUSES.IN_PROGRESS
    [] currentStatus = STATUSES.IN_PROGRESS    -> STATUSES.COMPLETED
    [] OTHER -> Null

getNextAutomaticStatus(currentStatus) ==
  CASE currentStatus = STATUSES.PENDING        -> STATUSES.IN_PROGRESS
    [] currentStatus = STATUSES.EN_ROUTE       -> STATUSES.IN_PROGRESS
    [] currentStatus = STATUSES.DRIVER_ON_WAY  -> STATUSES.DRIVER_ARRIVED
    [] currentStatus = STATUSES.DRIVER_ARRIVED -> STATUSES.RIDE_STARTED
    [] currentStatus = STATUSES.RIDE_STARTED   -> STATUSES.COMPLETED
    [] currentStatus = STATUSES.RIDE_COMPLETED -> STATUSES.COMPLETED
    [] currentStatus = STATUSES.IN_PROGRESS    -> STATUSES.COMPLETED
    [] OTHER -> Null

\* a faulty table, for comparison: in test mode every status lasts 2 minutes
getMinTimeForStatusSlowTest(status, testEnv) ==
  IF testEnv THEN 20
  ELSE CASE status = STATUSES.DRIVER_ON_WAY  -> 10
         [] status = STATUSES.DRIVER_ARRIVED -> 5
         [] OTHER                            -> 1

\* minutes, times ten (0.1 minute is 1)
getMinTimeForStatus(status, testEnv) ==
  CASE status = STATUSES.DRIVER_ON_WAY  -> IF testEnv THEN 1 ELSE 10
    [] status = STATUSES.DRIVER_ARRIVED -> IF testEnv THEN 1 ELSE 5
    [] status = STATUSES.RIDE_STARTED   -> IF testEnv THEN 1 ELSE 1
    [] OTHER                            -> IF testEnv THEN 1 ELSE 1

\* elapsedMinutes >= requiredMinTime, both sides times ten
hasEnoughTimePassed(age, currentStatus, testEnv) ==
  age * 10 >= getMinTimeForStatus(currentStatus, testEnv) * (60 * 1000)

\* a faulty rule, for comparison: the eta is never rewritten
getUpdatedETAKept(ride, newStatus) == ride.eta

getUpdatedETA(ride, newStatus) ==
  CASE newStatus = STATUSES.DRIVER_ARRIVED -> "Driver has arrived"
    [] newStatus = STATUSES.RIDE_STARTED   ->
         IF ride.ride_duration # "" THEN ride.ride_duration ELSE "In progress"
    [] newStatus = STATUSES.RIDE_COMPLETED -> "Completed"
    [] newStatus = STATUSES.COMPLETED      -> "Completed"
    [] OTHER -> IF ride.eta # "" THEN ride.eta ELSE "Updating..."

\* --------------------------------------------------------------- db.js
\* index of the first element with this id, 0 for findIndex's -1
findIndex(store, id) ==
  IF \E i \in DOMAIN store : store[i].id = id
  THEN CHOOSE i \in DOMAIN store :
         /\ store[i].id = id
         /\ \A j \in DOMAIN store : store[j].id = id => i <= j
  ELSE 0

\* { ...a, ...b }
Spread(a, b) == b @@ a

\* updateRide: the store afterwards; unchanged when it throws "Ride not found"
updateRide(store, updatedRide) ==
  LET index == findIndex(store, updatedRide.id)
  IN IF index = 0 THEN store
     ELSE [store EXCEPT ![index] = Spread(store[index], updatedRide)]

updateRideThrows(store, updatedRide) == findIndex(store, updatedRide.id) = 0

findRideById(store, rideId) == findIndex(store, rideId)

getActiveRides(store) == SelectSeq(store, isActiveRide)

\* Array.prototype.splice(index, 1)
Splice(store, index) ==
  [i \in 1..(Len(store) - 1) |-> IF i < index THEN store[i] ELSE store[i + 1]]

\* ------------------------------------------------------------ Socket.IO
\* a room name: the decimal string of n, followed by tail
Room(n, tail) == [n |-> n, tail |-> tail]

\* what a client may pass to joinRide: a number, its decimal string, a
\* string that parseInt reads a number from although other characters
\* follow it ("17abc"), or a string with no leading digits ("invalid")
RideIdForms == {"number", "string", "suffixed", "text"}

parseInt(rideId) == IF rideId.form = "text" THEN NaN ELSE rideId.n

\* !rideId : 0 is falsy, every non-empty string is truthy
Falsy(rideId) == rideId.form = "number" /\ rideId.n = 0

toString(rideId) ==
  IF rideId.form = "suffixed" THEN Room(rideId.n, "abc") ELSE Room(rideId.n, "")

\* the ride object as an event carries it.  Its lastUpdated string is left
\* out: the model keeps lastUpdated relative to the clock (age), and a sent
\* string does not age
Snapshot(ride) == [k \in DOMAIN ride \ {"age"} |-> ride[k]]

StatusUpdate(ride) == [ev |-> "statusUpdate", ride |-> Snapshot(ride)]
ErrorEvent(message) == [ev |-> "error", message |-> message]

\* io.to(room).emit(...) on the scheduler's io: every socket in the room
\* receives the event
\* a faulty room emit, for comparison: only one member of the room is sent
\* the event
EmitToOneMember(inb, rms, room, event) ==
  LET members == {s \in Sockets : room \in rms[s]}
  IN [s \in Sockets |->
        IF members # {} /\ s = CHOOSE m \in members : TRUE
        THEN Append(inb[s], event) ELSE inb[s]]

EmitToRoom(inb, rms, room, event) ==
  [s \in Sockets |-> IF room \in rms[s] THEN Append(inb[s], event) ELSE inb[s]]

\* socket.emit(...)
EmitToSocket(inb, s, event) == [inb EXCEPT ![s] = Append(inb[s], event)]

\* req.app.io is a second Server, made on the app file's own http server
\* when NODE_ENV is "test" and absent otherwise.  That http server never
\* listens (the entry file listens on a server of its own, with its own
\* io), so no socket is ever connected to it.
appIoSockets == {}

AppIoEmit(inb, room, event) ==
  [s \in Sockets |->
     IF s \in appIoSockets /\ isTestEnv THEN Append(inb[s], event) ELSE inb[s]]

InboxFits(inb) == \A s \in Sockets : Len(inb[s]) <= MaxInbox

\* ------------------------------------------------------------------ Init
Init ==
  /\ now = 1
  /\ idTaken = FALSE
  /\ isTestEnv \in BOOLEAN
  /\ activeDrivers \in {0, SeedDrivers}
  /\ sigterm = FALSE
  /\ rides = <<>>
  /\ rooms = [s \in Sockets |-> {}]
  /\ inbox = [s \in Sockets |-> <<>>]
  /\ res = [code |-> 0]
  /\ statusUpdateIntervals = {}
  /\ messageId = [w \in Workers |-> 0]
  /\ pendingMessages = [w \in Workers |-> << >>]
  /\ toMaster = [w \in Workers |-> << >>]
  /\ toWorker = << >>
  /\ masterDb = << >>
  /\ settled = [w \in Workers |-> << >>]
  /\ inProcessDb = << >>
  /\ inProcessOutcome = << >>
  /\ dbDrivers = [k \in 1 .. activeDrivers |->
                  [id |-> k, active |-> TRUE, distance |-> k * 1000]]
  /\ distance = 0
  /\ nearestDriver = << >>
  /\ returned = << >>
  /\ stored = << >>

Respond(code) == res' = [code |-> code]

\* ------------------------------------- createRide: the record of one ride
\* A value that may be null is a sequence of at most one element, << >> for
\* null.
Infinity == 1000000000

\* calculateDistance(pickup, destination): the same place, 4 metres, a
\* kilometre and 2.5 kilometres
Distances == {0, 4, 1000, 2500}

\* calculateDistance(pickup, driver.location.coordinates)
DriverDistances == {4, 1000, 2000}

\* Distances are in metres: calculateDistance returns kilometres as a
\* double, and the code rounds them to two decimals, that is to 10 metres.
toFixed2(d) == ((d + 5) \div 10) * 10

\* Math.round(5 + distance * 2), the distance in kilometres
costOf(d) == (5000 + 2 * d + 500) \div 1000

\* Math.floor(Math.random() * 10) + 1 kilometres
RandomDistances == {k * 1000 : k \in 1 .. 10}

\* Math.floor(Math.random() * 30) + 10
RandomCosts == 10 .. 39

driversOfLen(n) ==
  [1 .. n -> [active : BOOLEAN, distance : DriverDistances]]

\* db.drivers: ids in order, any of them active, at any of the distances
DriverLists ==
  { [k \in DOMAIN f |-> [id |-> k, active |-> f[k].active,
                           distance |-> f[k].distance]] :
      f \in UNION {driversOfLen(n) : n \in 0 .. MaxDrivers} }

getActiveDrivers(list) == SelectSeq(list, LAMBDA d : d.active)

\* the for loop of findNearestDriver from the k-th active driver on
RECURSIVE nearestLoop(_, _, _, _)
nearestLoop(active, k, nearest, shortestDistance) ==
  IF k > Len(active) THEN nearest
  ELSE IF active[k].distance < shortestDistance
       THEN nearestLoop(active, k + 1,
                        << Spread(active[k],
                                  [distance |-> toFixed2(active[k].distance)]) >>,
                        active[k].distance)
       ELSE nearestLoop(active, k + 1, nearest, shortestDistance)

\* the same loop with <= for <, for comparison
RECURSIVE nearestLoopLast(_, _, _, _)
nearestLoopLast(active, k, nearest, shortestDistance) ==
  IF k > Len(active) THEN nearest
  ELSE IF active[k].distance <= shortestDistance
       THEN nearestLoopLast(active, k + 1,
                            << Spread(active[k],
                                      [distance |-> toFixed2(active[k].distance)]) >>,
                            active[k].distance)
       ELSE nearestLoopLast(active, k + 1, nearest, shortestDistance)

findNearestDriverLast(list) ==
  IF Len(getActiveDrivers(list)) = 0 THEN << >>
  ELSE nearestLoopLast(getActiveDrivers(list), 1, << >>, Infinity)

findNearestDriverOf(list) ==
  IF Len(getActiveDrivers(list)) = 0 THEN << >>
  ELSE nearestLoop(getActiveDrivers(list), 1, << >>, Infinity)

\* the object createRide builds: of its fields the id, the requester, the
\* two that db.addRide may replace although createRide sets them, and the
\* driver
newRideRecord(userId, t, d, driver) ==
  [id |-> t, userId |-> userId, status |-> "Driver on the way",
   cost |-> costOf(d), distance |-> toFixed2(d), driver |-> driver.id]

\* the records db.addRide may push for this ride: a falsy cost or distance
\* is replaced by a random one
addRideRecords(ride) ==
  { Spread(ride, [cost |-> c, distance |-> d]) :
      c \in IF ride.cost = 0 THEN RandomCosts ELSE {ride.cost},
      d \in IF ride.distance = 0 THEN RandomDistances ELSE {ride.distance} }

\* createRide for one requester, as far as the record goes
CreateRideRecord(u) ==
  /\ res.code = 0
  /\ nearestDriver' = findNearestDriverOf(dbDrivers)
  /\ IF findNearestDriverOf(dbDrivers) = << >>
     THEN /\ Respond(400)
          /\ UNCHANGED <<returned, stored>>
     ELSE /\ returned' =
               << newRideRecord(u, now, distance,
                                 findNearestDriverOf(dbDrivers)[1]) >>
          /\ \E ride \in addRideRecords(returned'[1]) : stored' = << ride >>
          /\ Respond(201)
  /\ UNCHANGED <<now, idTaken, isTestEnv, activeDrivers, sigterm, rides, rooms,
                 inbox, statusUpdateIntervals, relayVars, dbDrivers, distance>>

\* ------------------------------------------------------- time passing
Older(age) == IF age + StepMs >= AgeCap THEN AgeCap ELSE age + StepMs

Advance ==
  /\ now' = IF idTaken THEN now + 1 ELSE now
  /\ idTaken' = FALSE
  /\ rides' = [i \in DOMAIN rides |-> [rides[i] EXCEPT !.age = Older(@)]]
  /\ UNCHANGED <<isTestEnv, activeDrivers, sigterm, rooms, inbox, res, statusUpdateIntervals,
                 relayVars, bookingVars>>

\* ------------------------------------------------- POST /api/rides
\* the first active ride of the user, 0 when there is none
existingRide(store, userId) ==
  IF \E i \in DOMAIN store : store[i].userId = userId /\ isActiveRide(store[i])
  THEN CHOOSE i \in DOMAIN store :
         /\ store[i].userId = userId /\ isActiveRide(store[i])
         /\ \A j \in DOMAIN store :
              store[j].userId = userId /\ isActiveRide(store[j]) => i <= j
  ELSE 0

newRide(userId, t) ==
  [ id |-> t, userId |-> userId, status |-> "Driver on the way", age |-> 0,
    date |-> t, eta |-> PickupETA, ride_duration |-> RideETA ]

\* db.addRide: of the fields these records keep, createRide passes truthy
\* values, so no default applies (cost and distance: see addRideRecords)
addRide(store, ride) == Append(store, ride)

createRideStore(store, userId, t) ==
  LET existing == existingRide(store, userId)
      kept == IF existing # 0
              THEN Splice(store, findIndex(store, store[existing].id))
              ELSE store
  IN addRide(kept, newRide(userId, t))

\* a findNearestDriver that always finds a driver
findNearestDriverAlways(drivers) == "driver"

\* findNearestDriver: null when no driver is active
findNearestDriver(drivers) == IF drivers = 0 THEN Null ELSE "driver"

CreateRide(u) ==
  /\ now <= MaxNow
  /\ IF findNearestDriver(activeDrivers) = Null
     THEN /\ Respond(400)
          /\ UNCHANGED <<rides, idTaken>>
     ELSE /\ Len(createRideStore(rides, u, now)) <= MaxRides
          /\ rides' = createRideStore(rides, u, now)
          /\ idTaken' = TRUE
          /\ Respond(201)
  /\ UNCHANGED <<now, isTestEnv, activeDrivers, sigterm, rooms, inbox, statusUpdateIntervals,
                 relayVars, bookingVars>>

\* the ride ids a request may name: those in the store and one that is not
RideIds == {rides[i].id : i \in DOMAIN rides} \cup {UnknownRideId}

\* ------------------------------------------------ DELETE /api/rides/:id
\* a faulty check, for comparison: the requester is not compared to the owner
cancelRideCodeAnyUser(store, userId, rideId) ==
  LET i == findRideById(store, rideId)
  IN CASE i = 0                                 -> 404
       [] store[i].status = "completed"         -> 400
       [] store[i].status = "cancelled"         -> 400
       [] OTHER                                 -> 200

cancelRideCode(store, userId, rideId) ==
  LET i == findRideById(store, rideId)
  IN CASE i = 0                                 -> 404
       [] store[i].userId # userId              -> 403
       [] store[i].status = "completed"         -> 400
       [] store[i].status = "cancelled"         -> 400
       [] OTHER                                 -> 200

\* a faulty cancellation, for comparison: it leaves lastUpdated as it was
cancelRideStoreStatusOnly(store, userId, rideId) ==
  LET i == findRideById(store, rideId)
  IN IF cancelRideCode(store, userId, rideId) = 200
     THEN updateRide(store, Spread(store[i], [status |-> "cancelled"]))
     ELSE store

cancelRideStore(store, userId, rideId) ==
  LET i == findRideById(store, rideId)
  IN IF cancelRideCode(store, userId, rideId) = 200
     THEN updateRide(store, Spread(store[i], [status |-> "cancelled", age |-> 0]))
     ELSE store

CancelRide(u, rideId) ==
  /\ rides' = cancelRideStore(rides, u, rideId)
  /\ Respond(cancelRideCode(rides, u, rideId))
  /\ UNCHANGED <<now, idTaken, isTestEnv, activeDrivers, sigterm, rooms, inbox, statusUpdateIntervals,
                 relayVars, bookingVars>>

\* --------------------------------------------- PUT /api/rides/:id/status
\* the table of the status utilities; the controller does not call it
getValidManualTransitions(currentStatus) ==
  CASE currentStatus = STATUSES.DRIVER_ON_WAY ->
         {STATUSES.DRIVER_ARRIVED, STATUSES.CANCELLED}
    [] currentStatus = STATUSES.DRIVER_ARRIVED ->
         {STATUSES.RIDE_STARTED, STATUSES.CANCELLED}
    [] currentStatus = STATUSES.RIDE_STARTED ->
         {STATUSES.RIDE_COMPLETED, STATUSES.COMPLETED, STATUSES.CANCELLED}
    [] currentStatus = STATUSES.RIDE_COMPLETED -> {STATUSES.COMPLETED}
    [] OTHER -> {}

\* the table the controller uses
\* a faulty table, for comparison: every status of the schema is a target
validNextStatusesAny(status) == updateRideStatusSchema

validNextStatuses(status) ==
  CASE status = "Driver on the way" -> {"Driver arrived"}
    [] status = "Driver arrived"    -> {"Ride started", "cancelled"}
    [] status = "Ride started"      -> {"Ride completed", "completed", "cancelled"}
    [] status = "Ride completed"    -> {"completed"}
    [] OTHER                        -> {}

updateRideStatusCode(store, userId, rideId, status) ==
  LET i == findRideById(store, rideId)
  IN CASE i = 0                                        -> 404
       [] store[i].userId # userId                     -> 403
       [] store[i].status = "completed"                -> 400
       [] store[i].status = "cancelled"                -> 400
       [] status \notin validNextStatuses(store[i].status) -> 400
       [] OTHER                                        -> 200

\* a faulty report, for comparison: the table of the utilities
validStatusesOfUtilities(status) == getValidManualTransitions(status)

\* validStatuses of the rejection: validNextStatuses[ride.status] || []
validStatuses(status) == validNextStatuses(status)

\* the response: a rejected transition also reports the valid targets
updateRideStatusResponse(store, userId, rideId, status) ==
  LET i == findRideById(store, rideId)
      code == updateRideStatusCode(store, userId, rideId, status)
  IN IF /\ code = 400
        /\ store[i].userId = userId
        /\ store[i].status \notin {"completed", "cancelled"}
     THEN [code |-> code, validStatuses |-> validStatuses(store[i].status)]
     ELSE [code |-> code]

\* the updatedRide object of the handler
manualUpdatedRide(ride, status) ==
  LET updatedRide == Spread(ride, [status |-> status, age |-> 0])
  IN CASE status = "Driver arrived" ->
            Spread(updatedRide, [eta |-> "Driver has arrived"])
       [] status = "Ride started" ->
            Spread(updatedRide, [eta |-> updatedRide.ride_duration])
       [] status \in {"Ride completed", "completed"} ->
            Spread(updatedRide, [eta |-> "Completed"])
       [] OTHER -> updatedRide

\* what the handler passes to req.app.io.to(room).emit, in order: nothing
\* when it returns early, and nothing when req.app.io is not set
updateRideStatusEmits(store, userId, rideId, status, testEnv) ==
  IF updateRideStatusCode(store, userId, rideId, status) = 200 /\ testEnv
  THEN << [room |-> Room(rideId, ""),
           event |-> StatusUpdate(
                       manualUpdatedRide(store[findRideById(store, rideId)],
                                         status))] >>
  ELSE << >>

UpdateRideStatus(u, rideId, status) ==
  LET i == findRideById(rides, rideId)
      code == updateRideStatusCode(rides, u, rideId, status)
      emits == updateRideStatusEmits(rides, u, rideId, status, isTestEnv)
  IN /\ res' = updateRideStatusResponse(rides, u, rideId, status)
     /\ inbox' = IF emits = << >> THEN inbox
                 ELSE AppIoEmit(inbox, emits[1].room, emits[1].event)
     /\ rides' = IF code = 200
                 THEN updateRide(rides, manualUpdatedRide(rides[i], status))
                 ELSE rides
     /\ UNCHANGED <<now, idTaken, isTestEnv, activeDrivers, sigterm, rooms, statusUpdateIntervals,
                 relayVars, bookingVars>>

\* ------------------------------------------------ GET /api/rides/status
\* userRides.sort((a, b) => b.id - a.id)[0]: of the user's active rides the
\* one with the largest id, the first in the array among equal ids; 0 if none
mostRecentActive(store, userId) ==
  LET mine == {i \in DOMAIN store :
                 store[i].userId = userId /\ isActiveRide(store[i])}
  IN IF mine = {} THEN 0
     ELSE CHOOSE i \in mine :
            \A j \in mine : \/ store[j].id < store[i].id
                            \/ (store[j].id = store[i].id /\ i <= j)

\* minTimePerStatus of getRideStatus, minutes times ten
pollMinTime(status) ==
  CASE status = "Driver on the way" -> 20
    [] status = "Driver arrived"    -> 5
    [] status = "Ride started"      -> 10
    [] OTHER                        -> 20

pollNextStatus(status) ==
  CASE status = "Driver on the way" -> "Driver arrived"
    [] status = "Driver arrived"    -> "Ride started"
    [] status = "Ride started"      -> "Ride completed"
    [] status = "Ride completed"    -> "completed"
    [] status = "pending"           -> "in_progress"
    [] status = "confirmed"         -> "in_progress"
    [] status = "en route"          -> "in_progress"
    [] status = "in_progress"       -> "completed"
    [] OTHER                        -> "Driver on the way"

\* the ride object after the in-place assignments of the handler
polledRide(ride) ==
  LET newStatus == pollNextStatus(ride.status)
      moved == Spread(ride, [status |-> newStatus, age |-> 0])
  IN CASE newStatus = "Driver arrived" ->
            Spread(moved, [eta |-> "Driver has arrived"])
       [] newStatus = "Ride started" ->
            Spread(moved, [eta |-> moved.ride_duration])
       [] newStatus \in {"Ride completed", "completed"} ->
            Spread(moved, [eta |-> "Completed"])
       [] OTHER -> moved

pollAdvances(store, userId) ==
  LET i == mostRecentActive(store, userId)
  IN /\ i # 0
     /\ ~(store[i].age * 10 < pollMinTime(store[i].status) * (60 * 1000))

\* ride is an element of db.rides, changed in place, then passed to updateRide
getRideStatusStore(store, userId) ==
  LET i == mostRecentActive(store, userId)
  IN IF pollAdvances(store, userId)
     THEN updateRide([store EXCEPT ![i] = polledRide(store[i])],
                     polledRide(store[i]))
     ELSE store

GetRideStatus(u) ==
  /\ rides' = getRideStatusStore(rides, u)
  /\ Respond(IF mostRecentActive(rides, u) = 0 THEN 404 ELSE 200)
  /\ UNCHANGED <<now, idTaken, isTestEnv, activeDrivers, sigterm, rooms, inbox, statusUpdateIntervals,
                 relayVars, bookingVars>>

\* ------------------------------------------------- GET /api/rides/history
\* the values of req.query.status: absent, or a string
HistoryFilters == {Null, "all", "completed", "in_progress", "cancelled"}

\* the switch on req.query.status
historyFilter(ride, status) ==
  CASE status = "completed" -> ride.status = "completed"
    [] status = "in_progress" ->
         ride.status \in {"in_progress", "Driver on the way", "Driver arrived",
                          "Ride started"}
    [] status = "cancelled" -> ride.status = "cancelled"
    [] OTHER -> TRUE

\* userRides.sort((a, b) => dateB - dateA): most recent first, rides of one
\* date in their order in the store
RECURSIVE sortByDate(_)
sortByDate(userRides) ==
  IF userRides = << >> THEN << >>
  ELSE LET a == Head(userRides)
           rest == sortByDate(Tail(userRides))
       IN SelectSeq(rest, LAMBDA b : b.date > a.date)
            \o << a >> \o SelectSeq(rest, LAMBDA b : b.date <= a.date)

\* the history as production returns it, whatever NODE_ENV is
userRidesOf(store, userId, status) ==
  sortByDate(SelectSeq(store,
               LAMBDA r : r.userId = userId /\ historyFilter(r, status)))

\* the response; noRidesCase is the request of test@example.com that carries
\* the header x-test-case: no-rides-exist
getRideHistory(store, userId, status, noRidesCase, testEnv) ==
  LET userRides == userRidesOf(store, userId, status)
      body(list) == [k \in DOMAIN list |-> Snapshot(list[k])]
  IN IF noRidesCase \/ userRides = << >> THEN [code |-> 404]
     ELSE IF testEnv THEN [code |-> 200, body |-> body(<< userRides[1] >>)]
     ELSE [code |-> 200, body |-> body(userRides)]

GetRideHistory(u, status, noRidesCase) ==
  /\ res' = getRideHistory(rides, u, status, noRidesCase, isTestEnv)
  /\ UNCHANGED <<now, idTaken, isTestEnv, activeDrivers, sigterm, rides, rooms, inbox, statusUpdateIntervals,
                 relayVars, bookingVars>>

\* ------------------------------------------- the scheduler (setInterval)
\* the updatedRide object of one loop iteration
tickUpdatedRide(ride) ==
  LET newStatus == getNextAutomaticStatus(ride.status)
      updatedRide == Spread(ride, [status |-> newStatus, age |-> 0])
  IN Spread(updatedRide, [eta |-> getUpdatedETA(updatedRide, newStatus)])

\* whether the loop body passes its three "continue"s for this ride
tickDue(ride, testEnv) ==
  /\ isActiveRide(ride)
  /\ hasEnoughTimePassed(ride.age, ride.status, testEnv)
  /\ getNextAutomaticStatus(ride.status) # Null

\* the room the scheduler emits a ride's update to: ride.id.toString()
rideRoom(ride) == Room(ride.id, "")

\* the for loop over the array getActiveRides() returned, from its k-th
\* element on: the objects of that array are the ones read before the loop;
\* a throwing updateRide ends the loop (the try encloses it).  nextStore
\* and nextInb are the store and the inboxes the next iteration starts from
RECURSIVE tickLoop(_, _, _, _, _, _)
tickLoop(active, k, store, inb, rms, testEnv) ==
  IF k > Len(active) THEN [rides |-> store, inbox |-> inb]
  ELSE IF ~tickDue(active[k], testEnv)
       THEN tickLoop(active, k + 1, store, inb, rms, testEnv)
       ELSE LET updatedRide == tickUpdatedRide(active[k])
                emitted == EmitToRoom(inb, rms, rideRoom(active[k]),
                                      StatusUpdate(updatedRide))
            IN IF updateRideThrows(store, updatedRide)
               THEN [rides |-> store, inbox |-> emitted]
               ELSE CHOOSE after \in
                      {tickLoop(active, k + 1, nextStore, nextInb, rms, testEnv) :
                         nextStore \in {updateRide(store, updatedRide)},
                         nextInb \in {emitted}} : TRUE

updateRideStatusTick(store, inb, rms, testEnv) ==
  tickLoop(getActiveRides(store), 1, store, inb, rms, testEnv)

SchedulerTick ==
  \E after \in {updateRideStatusTick(rides, inbox, rooms, isTestEnv)} :
    /\ InboxFits(after.inbox)
    /\ rides' = after.rides
    /\ inbox' = after.inbox
    /\ UNCHANGED <<now, idTaken, isTestEnv, activeDrivers, sigterm, rooms, res, statusUpdateIntervals,
                 relayVars, bookingVars>>

\* ----------------------- socket.on("joinRide") of unnamed/part_004
\* nextStatus[ride.status] || "Driver on the way"
variantNextStatus(status) ==
  CASE status = "Driver on the way" -> "Driver arrived"
    [] status = "Driver arrived"    -> "Ride started"
    [] status = "Ride started"      -> "Ride completed"
    [] status = "Ride completed"    -> "Finish"
    [] OTHER                        -> "Driver on the way"

\* ride.status = ...; ride.lastUpdated = new Date()
variantMoved(ride) ==
  [ride EXCEPT !.status = variantNextStatus(@), !.age = 0]

\* the handler of the variant app file, in the process that owns db.rides:
\* under NODE_ENV "test" it advances the ride at once, otherwise it starts
\* an interval that does
JoinRideVariant(s, rideId) ==
  LET numericRideId == parseInt(rideId)
      i == findIndex(rides, numericRideId)
      room == toString(rideId)
      joined == [rooms EXCEPT ![s] = @ \cup {room}]
  IN /\ IF numericRideId = NaN \/ i = 0
        THEN /\ inbox' = EmitToSocket(inbox, s,
                            ErrorEvent(IF numericRideId = NaN
                                       THEN "Invalid ride ID"
                                       ELSE "Ride not found"))
             /\ UNCHANGED <<rooms, rides, statusUpdateIntervals>>
        ELSE /\ rooms' = joined
             /\ IF isTestEnv
                THEN /\ IF rides[i].status # "Finish"
                        THEN /\ rides' = [rides EXCEPT ![i] = variantMoved(@)]
                             /\ inbox' = EmitToRoom(inbox, joined, room,
                                            StatusUpdate(variantMoved(rides[i])))
                        ELSE UNCHANGED <<rides, inbox>>
                     /\ UNCHANGED statusUpdateIntervals
                ELSE /\ statusUpdateIntervals' = statusUpdateIntervals \cup
                          {[numericRideId |-> numericRideId, room |-> room]}
                     /\ UNCHANGED <<rides, inbox>>
     /\ InboxFits(inbox')
     /\ UNCHANGED <<now, idTaken, isTestEnv, activeDrivers, sigterm, res, relayVars, bookingVars>>

\* one firing of such an interval; ride is the object found at the join,
\* which is the stored one as long as the ride is in the store
VariantInterval(interval) ==
  LET i == findIndex(rides, interval.numericRideId)
  IN /\ i # 0
     /\ IF rides[i].status # "Finish"
        THEN /\ rides' = [rides EXCEPT ![i] = variantMoved(@)]
             /\ inbox' = EmitToRoom(inbox, rooms, interval.room,
                            StatusUpdate(variantMoved(rides[i])))
             /\ UNCHANGED statusUpdateIntervals
        ELSE /\ statusUpdateIntervals' = statusUpdateIntervals \ {interval}
             /\ UNCHANGED <<rides, inbox>>
     /\ InboxFits(inbox')
     /\ UNCHANGED <<now, idTaken, isTestEnv, activeDrivers, sigterm, rooms, res,
                    relayVars, bookingVars>>

\* ---------------------------------------------- socket.on("disconnect")
\* the handler logs; Socket.IO has taken the socket out of its rooms
Disconnect(s) ==
  /\ rooms[s] # {}
  /\ rooms' = [rooms EXCEPT ![s] = {}]
  /\ UNCHANGED <<now, idTaken, isTestEnv, activeDrivers, sigterm, rides, inbox,
                 res, statusUpdateIntervals,
                 relayVars, bookingVars>>

\* --------------------------------------------- the relay (unnamed/part_000)
\* the rides and the updates the calls of the model carry: complete ride
\* objects, as the controllers pass them
RelayRides == {newRide(1, 1), newRide(2, 2)}
RelayUpdates == {tickUpdatedRide(newRide(1, 1)),
                 manualUpdatedRide(newRide(1, 1), "cancelled")}

\* the array of rides a read returns or sends, as a record
Array(store) == [rides |-> store]

\* the calls of the relay client: the rides getter, which sends no data,
\* addRide, updateRide
RelayCalls ==
  {[operation |-> "get_rides"]}
    \cup [operation : {"add_ride"}, data : RelayRides]
    \cup [operation : {"update_ride"}, data : RelayUpdates]

\* a faulty listener, for comparison: update_ride writes the status only
masterHandlerStatusOnly(db, msg) ==
  LET rideIndex == IF msg.operation = "update_ride"
                   THEN findIndex(db, msg.data.id) ELSE 0
      merged == [db[rideIndex] EXCEPT !.status = msg.data.status]
  IN CASE msg.operation = "get_rides" ->
            [db |-> db, response |-> [id |-> msg.id, result |-> Array(db)]]
       [] msg.operation = "add_ride" ->
            [db |-> Append(db, msg.data),
             response |-> [id |-> msg.id, result |-> msg.data]]
       [] msg.operation = "update_ride" /\ rideIndex # 0 ->
            [db |-> [db EXCEPT ![rideIndex] = merged],
             response |-> [id |-> msg.id, result |-> merged]]
       [] OTHER ->
            [db |-> db, response |-> [id |-> msg.id, error |-> "ride not found"]]

\* a faulty listener, for comparison: update_ride adds the ride it does not
\* find
masterHandlerUpsert(db, msg) ==
  LET rideIndex == IF msg.operation = "update_ride"
                   THEN findIndex(db, msg.data.id) ELSE 0
  IN CASE msg.operation = "get_rides" ->
            [db |-> db, response |-> [id |-> msg.id, result |-> Array(db)]]
       [] msg.operation = "add_ride" ->
            [db |-> Append(db, msg.data),
             response |-> [id |-> msg.id, result |-> msg.data]]
       [] msg.operation = "update_ride" /\ rideIndex # 0 ->
            [db |-> [db EXCEPT ![rideIndex] = Spread(db[rideIndex], msg.data)],
             response |-> [id |-> msg.id,
                           result |-> Spread(db[rideIndex], msg.data)]]
       [] OTHER ->
            [db |-> Append(db, msg.data),
             response |-> [id |-> msg.id, result |-> msg.data]]

\* the switch of the master's listener: the store afterwards and the
\* response it sends
masterHandler(db, msg) ==
  CASE msg.operation = "get_rides" ->
         [db |-> db, response |-> [id |-> msg.id, result |-> Array(db)]]
    [] msg.operation = "add_ride" ->
         [db |-> Append(db, msg.data),
          response |-> [id |-> msg.id, result |-> msg.data]]
    [] msg.operation = "update_ride" ->
         LET rideIndex == findIndex(db, msg.data.id)
         IN IF rideIndex # 0
            THEN LET merged == Spread(db[rideIndex], msg.data)
                 IN [db |-> [db EXCEPT ![rideIndex] = merged],
                     response |-> [id |-> msg.id, result |-> merged]]
            ELSE [db |-> db,
                  response |-> [id |-> msg.id, error |-> "ride not found"]]
    [] OTHER ->
         [db |-> db, response |-> [id |-> msg.id, error |-> "unknown operation"]]

\* the same operation on the in-process store of utils/db.js: the store
\* afterwards and what the call returns or throws
inProcessStore(db, call) ==
  CASE call.operation = "get_rides" ->
         [db |-> db, outcome |-> [result |-> Array(db)]]
    [] call.operation = "add_ride" ->
         [db |-> addRide(db, call.data), outcome |-> [result |-> call.data]]
    [] call.operation = "update_ride" ->
         IF updateRideThrows(db, call.data)
         THEN [db |-> db, outcome |-> [error |-> "Ride not found"]]
         ELSE [db |-> updateRide(db, call.data),
               outcome |-> [result |-> updateRide(db, call.data)[
                                         findIndex(db, call.data.id)]]]

\* the result or error a response carries
Outcome(msg) == [k \in DOMAIN msg \ {"id"} |-> msg[k]]

\* a method of dbClient called in worker w
RelayCall(w, call) ==
  LET id == messageId[w]
  IN /\ id < MaxMessageId
     /\ messageId' = [messageId EXCEPT ![w] = id + 1]
     /\ pendingMessages' = [pendingMessages EXCEPT ![w] = (id :> call) @@ @]
     /\ toMaster' = [toMaster EXCEPT ![w] =
                       Append(@, Spread([type |-> "db_operation", id |-> id],
                                        call))]
     /\ UNCHANGED <<appVars, bookingVars, toWorker, masterDb, settled, inProcessDb,
                    inProcessOutcome>>

\* the master's listener handles the oldest message of worker w
MasterReceive(w) ==
  /\ toMaster[w] # << >>
  /\ LET msg == Head(toMaster[w])
         handled == masterHandler(masterDb, msg)
         same == inProcessStore(inProcessDb, msg)
     IN /\ masterDb' = handled.db
        /\ toWorker' = Append(toWorker, handled.response)
        /\ inProcessDb' = same.db
        /\ inProcessOutcome' = Append(inProcessOutcome, same.outcome)
  /\ toMaster' = [toMaster EXCEPT ![w] = Tail(@)]
  /\ UNCHANGED <<appVars, bookingVars, messageId, pendingMessages, settled>>

\* the listener of worker w receives the oldest response
WorkerReceive(w) ==
  /\ toWorker # << >>
  /\ LET msg == Head(toWorker)
     IN IF msg.id \notin DOMAIN pendingMessages[w]
        THEN UNCHANGED <<pendingMessages, settled>>
        ELSE /\ pendingMessages' =
                  [pendingMessages EXCEPT ![w] =
                     [k \in DOMAIN @ \ {msg.id} |-> @[k]]]
             /\ settled' = [settled EXCEPT ![w] =
                              Append(@, [id |-> msg.id,
                                         call |-> pendingMessages[w][msg.id],
                                         outcome |-> Outcome(msg)])]
  /\ toWorker' = Tail(toWorker)
  /\ UNCHANGED <<appVars, bookingVars, messageId, toMaster, masterDb, inProcessDb,
                 inProcessOutcome>>

\* ------------------------------------------- process.on("SIGTERM")
\* server.close(): the HTTP server takes no new connection; open connections
\* and their sockets stay, and the interval is not cleared
Sigterm ==
  /\ sigterm' = TRUE
  /\ UNCHANGED <<now, idTaken, isTestEnv, activeDrivers, rides, rooms, inbox, res, statusUpdateIntervals,
                 relayVars, bookingVars>>

\* ------------------------------------------------ socket.on("joinRide")
\* what the handler does for socket s: the events it emits to s, in order,
\* and the room s joins (none when joined is FALSE)
\* a faulty handler, for comparison: it joins the room whatever it answers
joinRideUnchecked(store, rideId) ==
  LET i == findIndex(store, parseInt(rideId))
  IN IF i = 0
     THEN [joined |-> TRUE, event |-> ErrorEvent("Ride not found")]
     ELSE [joined |-> TRUE, event |-> StatusUpdate(store[i])]

joinRide(store, rideId) ==
  IF Falsy(rideId) \/ parseInt(rideId) = NaN
  THEN [joined |-> FALSE, event |-> ErrorEvent("Invalid ride ID")]
  ELSE LET numericRideId == IF rideId.form = "number" THEN rideId.n
                            ELSE parseInt(rideId)
           i == findIndex(store, numericRideId)
       IN IF i = 0
          THEN [joined |-> FALSE, event |-> ErrorEvent("Ride not found")]
          ELSE [joined |-> TRUE, event |-> StatusUpdate(store[i])]

JoinRide(s, rideId) ==
  LET done == joinRide(rides, rideId)
  IN /\ Len(inbox[s]) < MaxInbox
     /\ rooms' = IF done.joined
                 THEN [rooms EXCEPT ![s] = @ \cup {toString(rideId)}]
                 ELSE rooms
     /\ inbox' = EmitToSocket(inbox, s, done.event)
     /\ UNCHANGED <<now, idTaken, isTestEnv, activeDrivers, sigterm, rides, res, statusUpdateIntervals,
                 relayVars, bookingVars>>

\* the values clients pass to joinRide
RideIdInputs ==
  [form : {"number", "string", "suffixed"}, n : RideIds]
    \cup {[form |-> "text", n |-> 0], [form |-> "number", n |-> 0]}

\* -------------------------------------------------------- specifications
\* The HTTP handlers, the scheduler and the clock; no socket connects.
Next ==
  \/ Advance
  \/ SchedulerTick
  \/ \E u \in Users : CreateRide(u)
  \/ \E u \in Users : GetRideStatus(u)
  \/ \E u \in Users, rideId \in RideIds : CancelRide(u, rideId)
  \/ \E u \in Users, rideId \in RideIds, status \in updateRideStatusSchema :
       UpdateRideStatus(u, rideId, status)

Spec == Init /\ [][Next]_vars

\* Two sockets joining the ride of one requester, under ids joinRide
\* accepts, while the scheduler advances it.
SockCreateRide == Len(rides) < SockMaxRides /\ CreateRide(1)

\* the id of a stored ride, as a number and followed by text ("1abc")
StoredRideIdInputs ==
  [form : {"number", "suffixed"}, n : {rides[i].id : i \in DOMAIN rides}]

SockJoinRide ==
  \E s \in Sockets, rideId \in StoredRideIdInputs : JoinRide(s, rideId)

SockNext ==
  \/ Advance
  \/ SchedulerTick
  \/ SockCreateRide
  \/ SockJoinRide

SockSpec == Init /\ [][SockNext]_vars

\* One socket joining the ride of one requester while the ride's status is
\* changed in each of the four ways: tick, poll, manual update, cancellation.
PubGetRideStatus == GetRideStatus(1)

PubCancelRide == \E rideId \in RideIds : CancelRide(1, rideId)

PubUpdateRideStatus ==
  \E rideId \in RideIds, status \in updateRideStatusSchema :
    UpdateRideStatus(1, rideId, status)

PubJoinRide == \E rideId \in RideIdInputs : JoinRide("s1", rideId)

PubNext ==
  \/ Advance
  \/ SchedulerTick
  \/ SockCreateRide
  \/ PubGetRideStatus
  \/ PubCancelRide
  \/ PubUpdateRideStatus
  \/ PubJoinRide

PubSpec == Init /\ [][PubNext]_vars

\* The requests that change rides by hand, of both requesters, all handled
\* within one millisecond: the store holds one ride, or rides with one id.
ManualNext ==
  \/ \E u \in Users : CreateRide(u)
  \/ \E u \in Users, rideId \in RideIds : CancelRide(u, rideId)
  \/ \E u \in Users, rideId \in RideIds, status \in updateRideStatusSchema :
       UpdateRideStatus(u, rideId, status)

ManualSpec == Init /\ [][ManualNext]_vars

\* The requests of ManualNext over a running clock, and the history reads.
HistoryNext ==
  \/ Advance
  \/ \E u \in Users : CreateRide(u)
  \/ \E u \in Users, rideId \in RideIds : CancelRide(u, rideId)
  \/ \E u \in Users, rideId \in RideIds, status \in updateRideStatusSchema :
       UpdateRideStatus(u, rideId, status)
  \/ \E u \in Users, status \in HistoryFilters, noRidesCase \in BOOLEAN :
       GetRideHistory(u, status, noRidesCase)

HistorySpec == Init /\ [][HistoryNext]_vars

\* The scheduler and the clock while rides are created and the process is
\* sent SIGTERM.
ShutdownNext ==
  \/ Advance
  \/ SchedulerTick
  \/ Sigterm
  \/ \E u \in Users : CreateRide(u)

ShutdownSpec == Init /\ [][ShutdownNext]_vars

\* The relay alone: two workers calling the store of the master.
RelayNext ==
  \/ \E w \in Workers, call \in RelayCalls : RelayCall(w, call)
  \/ \E w \in Workers : MasterReceive(w)
  \/ \E w \in Workers : WorkerReceive(w)

\* the relay reads neither NODE_ENV nor the driver table
RelayInit == Init /\ ~isTestEnv /\ activeDrivers = SeedDrivers

RelaySpec == RelayInit /\ [][RelayNext]_vars

\* Sockets joining and leaving the ride of one requester while the
\* scheduler advances it.
SubscriberNext ==
  \/ Advance
  \/ SchedulerTick
  \/ SockCreateRide
  \/ SockJoinRide
  \/ \E s \in Sockets : Disconnect(s)

SubscriberSpec == Init /\ [][SubscriberNext]_vars

\* The same with the app file of unnamed/part_004 in place of part_003: one
\* ride, sockets joining it and leaving, no scheduler of the entry file.
VariantNext ==
  \/ Advance
  \/ SockCreateRide
  \/ \E s \in Sockets, rideId \in StoredRideIdInputs : JoinRideVariant(s, rideId)
  \/ \E interval \in statusUpdateIntervals : VariantInterval(interval)
  \/ \E s \in Sockets : Disconnect(s)

VariantSpec == Init /\ [][VariantNext]_vars

\* Automatic advancement only: rides are created, polled and ticked, never
\* cancelled or moved by hand.  setInterval keeps firing the scheduler and
\* the clock keeps running.
\* createRide's record for one request, for every list of drivers and
\* every distance
BookingInit ==
  /\ now = 1
  /\ idTaken = FALSE
  /\ isTestEnv = FALSE
  /\ dbDrivers \in DriverLists
  /\ activeDrivers = Len(getActiveDrivers(dbDrivers))
  /\ distance \in Distances
  /\ sigterm = FALSE
  /\ rides = <<>>
  /\ rooms = [s \in Sockets |-> {}]
  /\ inbox = [s \in Sockets |-> <<>>]
  /\ res = [code |-> 0]
  /\ statusUpdateIntervals = {}
  /\ messageId = [w \in Workers |-> 0]
  /\ pendingMessages = [w \in Workers |-> << >>]
  /\ toMaster = [w \in Workers |-> << >>]
  /\ toWorker = << >>
  /\ masterDb = << >>
  /\ settled = [w \in Workers |-> << >>]
  /\ inProcessDb = << >>
  /\ inProcessOutcome = << >>
  /\ nearestDriver = << >>
  /\ returned = << >>
  /\ stored = << >>

BookingNext == \E u \in Users : CreateRideRecord(u)

BookingSpec == BookingInit /\ [][BookingNext]_vars

\* The relay with every message in flight eventually received: the master
\* handles each worker's messages, and some worker receives each response.
FairRelaySpec ==
  /\ RelayInit
  /\ [][RelayNext]_vars
  /\ \A w \in Workers : WF_vars(MasterReceive(w))
  /\ WF_vars(\E w \in Workers : WorkerReceive(w))

AutoNext ==
  \/ Advance
  \/ SchedulerTick
  \/ \E u \in Users : CreateRide(u)
  \/ \E u \in Users : GetRideStatus(u)

FairSpec ==
  Init /\ [][AutoNext]_vars /\ WF_vars(Advance) /\ WF_vars(SchedulerTick)

\* ================================================================ claims
Terminal(ride) == ride.status \in {"completed", "cancelled"}

\* r2 is r with nothing written to it (its age may have grown with the clock)
Untouched(r, r2) ==
  /\ Snapshot(r2) = Snapshot(r)
  /\ r2.age \in {r.age, Older(r.age)}

\* the events socket s receives in this step, oldest first
NewEvents(s) == SubSeq(inbox'[s], Len(inbox[s]) + 1, Len(inbox'[s]))

\* of those, the statusUpdate events about the ride with id n
NewAbout(s, n) ==
  SelectSeq(NewEvents(s), LAMBDA e : e.ev = "statusUpdate" /\ e.ride.id = n)

\* the statusUpdate events a scheduler tick started now emits for ride id n
TickEmissions(n) ==
  LET due == SelectSeq(getActiveRides(rides),
                       LAMBDA r : r.id = n /\ tickDue(r, isTestEnv))
  IN [k \in 1..Len(due) |-> StatusUpdate(tickUpdatedRide(due[k]))]

\* C1: once a stored ride is completed or cancelled its record never
\* changes again, and cancelRide and updateRideStatus on it answer with an
\* error.
C1_TerminalNeverChanges ==
  [][ /\ \A i \in DOMAIN rides :
           Terminal(rides[i]) =>
             \E j \in DOMAIN rides' : Untouched(rides[i], rides'[j])
      /\ \A u \in Users, rideId \in RideIds :
           ( /\ findRideById(rides, rideId) # 0
             /\ Terminal(rides[findRideById(rides, rideId)])
             /\ \/ CancelRide(u, rideId)
                \/ \E status \in updateRideStatusSchema :
                     UpdateRideStatus(u, rideId, status) )
           => res'.code >= 400
    ]_vars

\* C2: every requester has at most one ride whose status is neither
\* completed nor cancelled.
C2_AtMostOneActivePerUser ==
  \A u \in Users :
    Cardinality({i \in DOMAIN rides :
                   rides[i].userId = u /\ ~Terminal(rides[i])}) <= 1

\* C3: no operation removes a ride record; a createRide of a requester who
\* has an active ride leaves that ride in the store with a terminal status.
C3_NoRideRemoved ==
  [][ \A i \in DOMAIN rides :
        \E j \in DOMAIN rides' :
          /\ rides'[j].id = rides[i].id
          /\ rides'[j].userId = rides[i].userId
          /\ rides'[j].date = rides[i].date
          /\ (CreateRide(rides[i].userId) /\ ~Terminal(rides[i]))
               => Terminal(rides'[j])
    ]_vars

\* C4: a created ride that is never cancelled or moved by hand is advanced
\* to Driver arrived, then Ride started, then completed, and stays
\* completed.
RideIn(n, u, statuses) ==
  \E i \in DOMAIN rides :
    rides[i].id = n /\ rides[i].userId = u /\ rides[i].status \in statuses

C4_CreatedRideCompletes ==
  /\ \A n \in 1..MaxNow, u \in Users :
       RideIn(n, u, {"Driver on the way", "Driver arrived", "Ride started",
                     "Ride completed"})
         ~> RideIn(n, u, {"completed"})
  /\ [][ \A n \in 1..MaxNow, u \in Users :
           RideIn(n, u, {"completed"}) => RideIn(n, u, {"completed"})'
     ]_vars

\* C5: a scheduler tick or getRideStatus poll leaves every ride unchanged
\* whose elapsed time is below the minimum dwell time of its status, and
\* emits nothing about it.
C5_NoAdvanceInsideDwell ==
  [][ (SchedulerTick \/ \E u \in Users : GetRideStatus(u)) =>
        \A i \in DOMAIN rides :
          ( /\ ~Terminal(rides[i])
            /\ ~hasEnoughTimePassed(rides[i].age, rides[i].status, isTestEnv) )
          => /\ i \in DOMAIN rides'
             /\ rides'[i] = rides[i]
             /\ \A s \in Sockets : NewAbout(s, rides[i].id) = <<>>
    ]_vars

\* C6: every change of a stored ride's status emits exactly one statusUpdate
\* carrying the new status to the ride's room.
C6_EveryChangePublished ==
  [][ \A i \in DOMAIN rides :
        ( /\ i \in DOMAIN rides'
          /\ rides'[i].id = rides[i].id
          /\ rides'[i].status # rides[i].status )
        => \A s \in Sockets :
             Room(rides[i].id, "") \in rooms[s] =>
               NewEvents(s) = <<StatusUpdate(rides'[i])>>
    ]_vars

C8_JoinerMissesNothing ==
  [][ /\ \A s \in Sockets, rideId \in RideIdInputs :
           (JoinRide(s, rideId) /\ rooms'[s] # rooms[s]) =>
             \E i \in DOMAIN rides :
               /\ rides[i].id = parseInt(rideId)
               /\ NewEvents(s) = <<StatusUpdate(rides[i])>>
      /\ SchedulerTick =>
           \A s \in Sockets :
             \A room \in rooms[s] : NewAbout(s, room.n) = TickEmissions(room.n)
    ]_vars

\* C9: joinRide with a non-numeric id or the id of no stored ride emits an
\* error event to the caller, joins no room, sends no statusUpdate and
\* changes no ride.
NoSuchRide(rideId) ==
  \/ rideId.form = "text"
  \/ \A i \in DOMAIN rides : rides[i].id # rideId.n

C9_JoinRejected ==
  [][ \A s \in Sockets, rideId \in RideIdInputs :
        (NoSuchRide(rideId) /\ JoinRide(s, rideId)) =>
          /\ \/ NewEvents(s) = <<ErrorEvent("Invalid ride ID")>>
             \/ /\ NewEvents(s) = <<ErrorEvent("Ride not found")>>
                /\ rideId.form # "text"
          /\ \A t \in Sockets \ {s} : inbox'[t] = inbox[t]
          /\ rooms' = rooms
          /\ rides' = rides
    ]_vars

C9_Witness ==
  /\ rides # <<>>
  /\ \E s \in Sockets :
       /\ rooms[s] = {}
       /\ inbox[s] = <<ErrorEvent("Invalid ride ID"), ErrorEvent("Ride not found")>>

\* C10: cancelRide requested by the owner of a non-terminal ride succeeds
\* and leaves that ride cancelled.
C10_OwnerCanCancel ==
  [][ \A u \in Users, rideId \in RideIds :
        ( /\ CancelRide(u, rideId)
          /\ \E i \in DOMAIN rides :
               /\ rides[i].id = rideId
               /\ rides[i].userId = u
               /\ ~Terminal(rides[i]) )
        => /\ res'.code = 200
           /\ \A j \in DOMAIN rides' :
                (rides'[j].id = rideId /\ rides'[j].userId = u)
                  => rides'[j].status = "cancelled"
    ]_vars

\* C11: updateRideStatus with target cancelled, requested by the owner of
\* the ride the id names, is accepted from every non-terminal status and
\* leaves the ride cancelled; from Driver on the way the handler accepts
\* exactly Driver arrived and cancelled.
C11_ManualCancelAccepted ==
  [][ \A u \in Users, rideId \in RideIds, status \in updateRideStatusSchema :
        ( /\ UpdateRideStatus(u, rideId, status)
          /\ findRideById(rides, rideId) # 0
          /\ rides[findRideById(rides, rideId)].userId = u
          /\ ~Terminal(rides[findRideById(rides, rideId)]) )
        => /\ status = "cancelled" =>
                /\ res'.code = 200
                /\ rides'[findRideById(rides, rideId)].status = "cancelled"
           /\ rides[findRideById(rides, rideId)].status = "Driver on the way" =>
                (res'.code = 200 <=> status \in {"Driver arrived", "cancelled"})
    ]_vars

\* C12: an updateRideStatus whose target the handler does not accept from
\* the ride's status answers 400, leaves the store unchanged, emits nothing,
\* and reports as valid targets exactly the targets it would accept.
AcceptedTargets(u, rideId) ==
  {t \in updateRideStatusSchema : updateRideStatusCode(rides, u, rideId, t) = 200}

\* the ride the id names is an active ride of user u
OwnActiveRide(u, rideId) ==
  /\ findRideById(rides, rideId) # 0
  /\ rides[findRideById(rides, rideId)].userId = u
  /\ ~Terminal(rides[findRideById(rides, rideId)])

C12_InvalidTransitionRejected ==
  [][ \A u \in Users, rideId \in RideIds :
        OwnActiveRide(u, rideId) =>
          LET accepted == AcceptedTargets(u, rideId)
          IN \A status \in updateRideStatusSchema \ accepted :
               UpdateRideStatus(u, rideId, status) =>
                 /\ res'.code = 400
                 /\ res'.validStatuses = accepted
                 /\ rides' = rides
                 /\ inbox' = inbox
                 /\ updateRideStatusEmits(rides, u, rideId, status, isTestEnv)
                      = << >>
    ]_vars

\* a rejected jump from Driver on the way to completed has been answered
C12_Witness ==
  /\ res = [code |-> 400, validStatuses |-> {"Driver arrived"}]
  /\ \E i \in DOMAIN rides : rides[i].status = "Driver on the way"

\* C13: cancelRide and updateRideStatus answer 404 for an id of no stored
\* ride and 403 when the ride found belongs to another user, and change
\* nothing then; no such request changes a ride of a user other than the
\* requester.
ByHand(u, rideId) ==
  \/ CancelRide(u, rideId)
  \/ \E status \in updateRideStatusSchema : UpdateRideStatus(u, rideId, status)

C13_OnlyOwnerChangesRide ==
  [][ \A u \in Users, rideId \in RideIds :
        ByHand(u, rideId) =>
          /\ findRideById(rides, rideId) = 0 =>
                res'.code = 404 /\ rides' = rides
          /\ ( /\ findRideById(rides, rideId) # 0
               /\ rides[findRideById(rides, rideId)].userId # u ) =>
                res'.code = 403 /\ rides' = rides
          /\ \A k \in DOMAIN rides :
                rides[k].userId # u => (k \in DOMAIN rides' /\ rides'[k] = rides[k])
    ]_vars

\* a request for another user's active ride has been answered Forbidden
C13_Witness ==
  /\ res.code = 403
  /\ \E k \in DOMAIN rides : ~Terminal(rides[k])
  /\ \E k \in DOMAIN rides : rides[k].status = "cancelled"

C15_RideIdsDistinct ==
  \A i, j \in DOMAIN rides : i # j => rides[i].id # rides[j].id

\* the fields of a ride that are written at creation only
CreationFields(ride) ==
  [ id |-> ride.id, userId |-> ride.userId, date |-> ride.date,
    ride_duration |-> ride.ride_duration ]

\* every stored ride is still stored at its place with its creation fields
CreationFieldsKept ==
  /\ Len(rides') = Len(rides)
  /\ \A k \in DOMAIN rides : CreationFields(rides'[k]) = CreationFields(rides[k])

\* a step of the scheduler, of a poll, of a manual transition or a cancellation
WritesStatus ==
  \/ SchedulerTick
  \/ \E u \in Users : GetRideStatus(u)
  \/ \E u \in Users, rideId \in RideIds : ByHand(u, rideId)

\* C16: a scheduler tick, a getRideStatus poll, a manual transition and a
\* cancellation change only status, lastUpdated and eta of a stored ride: its
\* userId and the other fields written at creation stay as they were.
C16_CreationFieldsImmutable ==
  [][ CreationFieldsKept \/ ~WritesStatus ]_vars

\* C17: getRideHistory returns the requester's rides only, restricted to the
\* status filter when one is given, most recent first, and every such ride
\* (here: every such ride the store holds).
C17_HistoryComplete ==
  [][ \A u \in Users, status \in HistoryFilters :
        GetRideHistory(u, status, FALSE) =>
          LET mine == { k \in DOMAIN rides :
                          rides[k].userId = u /\ historyFilter(rides[k], status) }
          IN IF mine = {} THEN res'.code = 404
             ELSE /\ res'.code = 200
                  /\ Len(res'.body) = Cardinality(mine)
                  /\ \A k \in mine : \E n \in DOMAIN res'.body :
                        res'.body[n] = Snapshot(rides[k])
                  /\ \A n \in DOMAIN res'.body :
                        \E k \in mine : res'.body[n] = Snapshot(rides[k])
                  /\ \A n, m \in DOMAIN res'.body :
                        n < m => res'.body[n].date >= res'.body[m].date
    ]_vars

\* the store after this step holds a ride with this snapshot
StoreHolds(event) ==
  \E i \in DOMAIN rides' : StatusUpdate(rides'[i]) = event

\* C18: every snapshot a transition publishes, automatic or manual, is a
\* state of the ride that the store holds once the transition is done.
C18_PublishedIsStored ==
  [][ /\ SchedulerTick =>
           \A n \in RideIds :
             \A k \in DOMAIN TickEmissions(n) : StoreHolds(TickEmissions(n)[k])
      /\ \A u \in Users, rideId \in RideIds, status \in updateRideStatusSchema :
           UpdateRideStatus(u, rideId, status) =>
             LET emits == updateRideStatusEmits(rides, u, rideId, status, isTestEnv)
             IN \A k \in DOMAIN emits : StoreHolds(emits[k].event)
    ]_vars

\* C20: in a scheduler tick every stored ride whose dwell time has expired
\* makes exactly one transition, to the next automatic status, and exactly
\* one statusUpdate is emitted for its id.
C20_OneTransitionPerExpiry ==
  [][ SchedulerTick =>
        \A i \in DOMAIN rides :
          tickDue(rides[i], isTestEnv) =>
            /\ rides'[i] = tickUpdatedRide(rides[i])
            /\ Len(TickEmissions(rides[i].id)) = 1
    ]_vars

\* the place of a status in the order of the lifecycle
statusOrder(status) ==
  CASE status = "Driver on the way" -> 1
    [] status = "Driver arrived" -> 2
    [] status = "Ride started" -> 3
    [] status = "Ride completed" -> 4
    [] status = "completed" -> 5
    [] OTHER -> 0

\* no stored ride is at an earlier status after this step, and a cancelled
\* ride is still cancelled
NoRideMovedBack ==
  \A i \in DOMAIN rides :
    /\ i \in DOMAIN rides'
    /\ rides[i].status = "cancelled" => rides'[i].status = "cancelled"
    /\ rides'[i].status # "cancelled" =>
         statusOrder(rides'[i].status) >= statusOrder(rides[i].status)

\* C22: no scheduler tick, getRideStatus poll, manual transition or
\* cancellation moves a stored ride backwards in the order Driver on the
\* way < Driver arrived < Ride started < Ride completed < completed, and
\* cancelled is absorbing.
C22_StatusNeverMovesBack ==
  [][ NoRideMovedBack \/ ~WritesStatus ]_vars

\* C23: the scheduler tick and the getRideStatus poll advance a ride under
\* the same condition and to the same status: the requester's polled ride is
\* due for the tick exactly when the poll advances it, and the poll moves it
\* to the next automatic status of the status utilities.
C23_TickAndPollAgree ==
  [][ \A u \in Users :
        LET i == mostRecentActive(rides, u)
        IN i # 0 =>
             /\ tickDue(rides[i], isTestEnv) <=> pollAdvances(rides, u)
             /\ (GetRideStatus(u) /\ pollAdvances(rides, u)) =>
                  rides'[i].status = getNextAutomaticStatus(rides[i].status)
    ]_vars

\* C24: getNextAutomaticStatus maps Driver on the way to Driver arrived,
\* Driver arrived to Ride started, Ride started to completed, and gives no
\* next status for any other status a stored ride has.
C24_NextStatusTable ==
  \A i \in DOMAIN rides :
    getNextAutomaticStatus(rides[i].status) =
      CASE rides[i].status = "Driver on the way" -> "Driver arrived"
        [] rides[i].status = "Driver arrived" -> "Ride started"
        [] rides[i].status = "Ride started" -> "completed"
        [] OTHER -> Null

\* a change of status from a to b that passes over no intermediate status
NoSkip(a, b) ==
  /\ a = "Driver on the way" =>
       b \notin {"Ride started", "Ride completed", "completed"}
  /\ a = "Driver arrived" => b \notin {"Ride completed", "completed"}

\* C25: no accepted manual transition skips an intermediate status: a ride
\* in Driver on the way is never moved by updateRideStatus directly to Ride
\* started, Ride completed or completed, and a ride in Driver arrived never
\* directly to Ride completed or completed.
C25_NoManualSkip ==
  [][ \A u \in Users, rideId \in RideIds, status \in updateRideStatusSchema :
        (UpdateRideStatus(u, rideId, status) /\ res'.code = 200) =>
          /\ NoSkip(rides[findRideById(rides, rideId)].status, status)
          /\ \A k \in DOMAIN rides : NoSkip(rides[k].status, rides'[k].status)
    ]_vars

C25_Witness ==
  /\ res.code = 200
  /\ \E k \in DOMAIN rides : rides[k].status = "Ride started"

\* C26: after SIGTERM has been handled no further scheduler tick starts: no
\* tick changes a ride or emits an event from then on.
C26_NoTickAfterSigterm ==
  [][ sigterm => ~SchedulerTick ]_vars

\* C27: every call of the relay client is settled with the result or error
\* of its own operation, in the worker that made it and at most once: an
\* addRide call is resolved with the ride it passed, an updateRide call with
\* a ride of the id it passed or with an error, a read with an array of
\* rides; no worker settles two calls of one message id.
OwnOutcome(call, outcome) ==
  CASE call.operation = "add_ride" -> outcome = [result |-> call.data]
    [] call.operation = "update_ride" ->
         \/ outcome = [error |-> "ride not found"]
         \/ outcome = [result |-> call.data]
    [] OTHER ->
         /\ DOMAIN outcome = {"result"}
         /\ DOMAIN outcome.result = {"rides"}
         /\ \A k \in DOMAIN outcome.result.rides :
              outcome.result.rides[k] \in RelayRides \cup RelayUpdates

UpdateOfStored(w) ==
  /\ toMaster[w] # << >>
  /\ Head(toMaster[w]).operation = "update_ride"
  /\ findIndex(masterDb, Head(toMaster[w]).data.id) # 0

\* C28: an update of a stored ride leaves the record equal to the update's
\* input in every field, in the master's store and in the in-process store,
\* also when another worker's update of the same id is in flight: after two
\* such updates the record is the last writer's input.
C28_LastWriterWholeRecord ==
  [][ \A w \in Workers :
        (UpdateOfStored(w) /\ MasterReceive(w)) =>
          LET data == Head(toMaster[w]).data
              rideIndex == findIndex(masterDb, data.id)
          IN /\ masterDb'[rideIndex] = data
             /\ \A k \in DOMAIN masterDb \ {rideIndex} : masterDb'[k] = masterDb[k]
             /\ inProcessDb'[findIndex(inProcessDb, data.id)] = data
    ]_vars

\* both updates of ride 1 have been applied, the cancellation last
C28_Witness ==
  /\ \E k \in DOMAIN masterDb :
       masterDb[k] = manualUpdatedRide(newRide(1, 1), "cancelled")
  /\ \E n \in DOMAIN inProcessOutcome :
       inProcessOutcome[n] = [result |-> tickUpdatedRide(newRide(1, 1))]
  /\ messageId = [w \in Workers |-> MaxMessageId]

\* C29: for the same operations in the same order the master's store behind
\* the relay answers as the in-process store does and holds the same rides.
C29_RelayAsInProcess ==
  [][ \A w \in Workers :
        MasterReceive(w) =>
          /\ Outcome(toWorker'[Len(toWorker')])
               = inProcessOutcome'[Len(inProcessOutcome')]
          /\ masterDb' = inProcessDb'
    ]_vars

\* the store after a scheduler tick started now if no socket had ever joined
TickWithoutSubscribers ==
  updateRideStatusTick(rides, [s \in Sockets |-> << >>],
                       [s \in Sockets |-> {}], isTestEnv).rides

\* C30: ride advancement does not depend on subscribers: a scheduler tick
\* leaves the store as it would with no socket in any room, and a joinRide,
\* what a joinRide has started, or a disconnect changes no ride record.
C30_SubscribersDoNotMatter ==
  [][ /\ SchedulerTick => rides' = TickWithoutSubscribers
      /\ ( \/ \E s \in Sockets, rideId \in RideIdInputs :
                JoinRide(s, rideId) \/ JoinRideVariant(s, rideId)
           \/ \E s \in Sockets : Disconnect(s) ) => rides' = rides
      /\ (\E interval \in statusUpdateIntervals : VariantInterval(interval))
           => rides' = rides
    ]_vars

\* the store after a scheduler tick started now, under NODE_ENV "test" or not
TickIn(testEnv) ==
  updateRideStatusTick(rides, [s \in Sockets |-> << >>],
                       [s \in Sockets |-> {}], testEnv).rides

\* C31: test mode only shortens the minimum dwell times: for every stored
\* ride the test-mode minimum of its status is at most the normal one, and a
\* record that a normal-mode tick would move to a status is moved to that
\* same status by a test-mode tick.
C31_FastModeSameStatuses ==
  \A i \in DOMAIN rides :
    /\ getMinTimeForStatus(rides[i].status, TRUE)
         <= getMinTimeForStatus(rides[i].status, FALSE)
    /\ TickIn(FALSE)[i].status # rides[i].status =>
         TickIn(TRUE)[i].status = TickIn(FALSE)[i].status

\* a ride that only the test-mode tick would advance, and one that both would
C31_Witness ==
  /\ \E i \in DOMAIN rides :
       TickIn(TRUE)[i].status # rides[i].status /\ TickIn(FALSE)[i] = rides[i]
  /\ \E i \in DOMAIN rides : TickIn(FALSE)[i].status # rides[i].status

\* the eta a ride has after a change to this status, given what it was before
etaAfter(before, status) ==
  CASE status = "Driver arrived" -> "Driver has arrived"
    [] status = "Ride started" -> before.ride_duration
    [] status \in {"Ride completed", "completed"} -> "Completed"
    [] OTHER -> before.eta

\* every record whose status this step changed has the eta of its new status
EtaFollowsStatus ==
  \A i \in DOMAIN rides :
    /\ i \in DOMAIN rides'
    /\ rides'[i].status # rides[i].status =>
         rides'[i].eta = etaAfter(rides[i], rides'[i].status)

FirstNearestActive(k) ==
  /\ dbDrivers[k].active
  /\ \A j \in DOMAIN dbDrivers :
       dbDrivers[j].active =>
         /\ dbDrivers[j].distance >= dbDrivers[k].distance
         /\ j < k => dbDrivers[j].distance > dbDrivers[k].distance

\* C33: findNearestDriver returns null exactly when no driver is active,
\* and otherwise an active driver at the least distance to the pickup over
\* all active drivers, the first of them in the order of db.drivers.
C33_NearestActiveDriver ==
  [][ \A u \in Users :
        CreateRideRecord(u) =>
          /\ nearestDriver' = << >> <=>
               \A k \in DOMAIN dbDrivers : ~dbDrivers[k].active
          /\ nearestDriver' # << >> =>
               \E k \in DOMAIN dbDrivers :
                 /\ dbDrivers[k].id = nearestDriver'[1].id
                 /\ FirstNearestActive(k)
    ]_vars

\* two active drivers at the least distance, an inactive one nearer still,
\* and the first of the two returned
C33_Witness ==
  /\ nearestDriver # << >>
  /\ \E j, k \in DOMAIN dbDrivers :
       /\ ~dbDrivers[j].active
       /\ dbDrivers[j].distance < dbDrivers[nearestDriver[1].id].distance
       /\ k > nearestDriver[1].id
       /\ dbDrivers[k].active
       /\ dbDrivers[k].distance = dbDrivers[nearestDriver[1].id].distance

\* C34: the ride createRide stores equals the ride it returns, field for
\* field, and its cost and distance are the ones computed from the distance
\* between pickup and destination, also when that distance is 0.
C34_StoredIsReturned ==
  [][ \A u \in Users :
        (CreateRideRecord(u) /\ res'.code = 201) =>
          /\ stored' = returned'
          /\ stored'[1].cost = costOf(distance)
          /\ stored'[1].distance = toFixed2(distance)
    ]_vars

\* C35: after a joinRide answered with the ride's statusUpdate, in whatever
\* form the id was passed, the socket is in the room the scheduler and
\* updateRideStatus emit to for that ride, the ride's numeric id as a
\* string, and the join has put it into no other room.
C35_JoinedRoomIsEmitRoom ==
  [][ \A s \in Sockets, rideId \in StoredRideIdInputs :
        (JoinRide(s, rideId) /\ joinRide(rides, rideId).joined) =>
          /\ Room(parseInt(rideId), "") \in rooms'[s]
          /\ rooms'[s] \ rooms[s] \subseteq {Room(parseInt(rideId), "")}
    ]_vars

\* every record whose status this step changed has lastUpdated at the
\* present instant, and no record has an earlier lastUpdated than before
LastUpdatedFollowsStatus ==
  \A i \in DOMAIN rides :
    /\ i \in DOMAIN rides'
    /\ rides'[i].status # rides[i].status => rides'[i].age = 0
    /\ rides'[i].age <= rides[i].age

\* C36: a scheduler tick, poll, manual transition or cancellation that
\* changes a stored ride's status sets its lastUpdated to the time of the
\* change, and none of them moves a lastUpdated back.
C36_LastUpdatedFollowsStatus ==
  [][ LastUpdatedFollowsStatus \/ ~WritesStatus ]_vars

\* a ride cancelled at this instant, some time after its creation
C36_Witness ==
  /\ now > 1
  /\ \E i \in DOMAIN rides :
       rides[i].status = "cancelled" /\ rides[i].age = 0 /\ rides[i].date < now

\* the statuses of the ride lifecycle
LifecycleStatuses ==
  { STATUSES.DRIVER_ON_WAY, STATUSES.DRIVER_ARRIVED, STATUSES.RIDE_STARTED,
    STATUSES.RIDE_COMPLETED, STATUSES.COMPLETED, STATUSES.CANCELLED }

C38_EveryRequestSettled ==
  \A w \in Workers, id \in 0 .. MaxMessageId - 1 :
    (id \in DOMAIN pendingMessages[w]) ~> (id \notin DOMAIN pendingMessages[w])

\* the message the master handles in this step is an update of a ride id
\* that this store does not hold
UpdateOfMissing(w, db) ==
  /\ MasterReceive(w)
  /\ Head(toMaster[w]).operation = "update_ride"
  /\ findIndex(db, Head(toMaster[w]).data.id) = 0

\* C39: an update of a ride id that the store does not hold is answered
\* with an error, by db.updateRide ("Ride not found") and by the relay's
\* update_ride, and leaves the store as it was, no ride changed and none
\* added.
C39_UpdateOfMissingRide ==
  [][ \A w \in Workers :
        /\ UpdateOfMissing(w, inProcessDb) =>
             /\ inProcessDb' = inProcessDb
             /\ inProcessOutcome'[Len(inProcessOutcome')] =
                  [error |-> "Ride not found"]
        /\ UpdateOfMissing(w, masterDb) =>
             /\ masterDb' = masterDb
             /\ DOMAIN toWorker'[Len(toWorker')] = {"id", "error"}
    ]_vars

\* an update of a missing id was answered with an error by both stores
\* while they held another ride
C39_Witness ==
  /\ masterDb # << >> /\ inProcessDb # << >>
  /\ \E k \in DOMAIN inProcessOutcome :
       inProcessOutcome[k] = [error |-> "Ride not found"]
  /\ \E w \in Workers : \E k \in DOMAIN settled[w] :
       "error" \in DOMAIN settled[w][k].outcome

====
